---- MODULE Spec2Model ----
(***************************************************************************)
(* Model of the subprocess-mediated prompt engine of AIModelMate           *)
(* (src/src/bot.ts, class Bot) together with the child process it drives.  *)
(*                                                                         *)
(* Text is a sequence of one-character strings.  The Bot's handle `bot`    *)
(* is 0 for null and otherwise the index of the spawned child.  A Node     *)
(* EventEmitter calls the listeners that were attached when emit() began,  *)
(* in attachment order, and an exception thrown by a listener leaves       *)
(* emit() at once; the server installs no uncaughtException handler, so    *)
(* such an exception ends the server (`crashed`).                          *)
(***************************************************************************)
EXTENDS Integers, Sequences, FiniteSets, TLC

\* ---------------------------------------------------------------- bounds
MaxOpens == 2      \* open() calls issued (each spawns one child)
MaxPrompts == 2    \* prompt() calls issued
MaxChunks == 3     \* chunks the children write, all together
MaxEvents == 7     \* open() calls, prompt() calls and chunks, all together

Procs == 1..MaxOpens
CallIds == 1..MaxPrompts

\* ---------------------------------------------------------------- text
SENTINEL == ">"
White == {" ", "\n"}

\* The letter the child uses for the answer to the j-th line it reads;
\* "z" is the letter of its start-up banner (j = 0).
Letter(j) == IF j = 0 THEN "z" ELSE <<"a", "b", "c", "d", "e", "f">>[j]

\* String.prototype.includes for a one-character needle
Includes(s, ch) == \E i \in 1..Len(s) : s[i] = ch

\* String.prototype.endsWith for a one-character needle
EndsWith(s, ch) == Len(s) > 0 /\ s[Len(s)] = ch

\* String.prototype.slice(0, -1)
DropLast(s) == SubSeq(s, 1, Len(s) - 1)

RECURSIVE TrimStart(_)
TrimStart(s) == IF s # <<>> /\ Head(s) \in White THEN TrimStart(Tail(s)) ELSE s

RECURSIVE TrimEnd(_)
TrimEnd(s) == IF s # <<>> /\ s[Len(s)] \in White THEN TrimEnd(DropLast(s)) ELSE s

\* String.prototype.trim
Trim(s) == TrimEnd(TrimStart(s))

\* The prompt texts the callers pass to prompt()
Prompts == { <<"h">>, <<" ", "h", "\n">> }

\* The chunks a child can write: banner text or the prompt marker while it
\* starts, and while it produces the answer with letter L, text without the
\* sentinel or text with the sentinel at its end or at its start
ChunkSet(L) ==
  IF L = Letter(0)
    THEN { <<L>>, <<SENTINEL, " ">> }
    ELSE { <<" ", L, " ">>, <<L, SENTINEL>>, <<SENTINEL, L>> }

\* Every chunk a child can write
Chunks == UNION { ChunkSet(Letter(j)) : j \in 0..MaxPrompts }

VARIABLES
  bot,      \* Bot.bot: 0 = null, else the child the handle refers to
  nprocs,   \* number of children spawned so far (children are 1..nprocs)
  alive,    \* alive[p]: child p has neither been killed nor exited
  stdin,    \* stdin[p]: the writes made to child p's input stream, in order
  dataL,    \* dataL[p]: "data" listeners on child p's stdout, in order
  errL,     \* errL[p]: "error" listeners on child p's stdout, in order
  child,    \* child[p]: cur = the line child p is answering (0: its banner),
            \* done = it has written the sentinel that ends cur
  written,  \* number of chunks the children have written, all together
  opens,    \* opens[p]: the open() call that spawned child p
  calls,    \* calls[c]: the c-th prompt() call
  crashed,  \* an exception escaped a stream callback
  closed    \* "" unless the step taken last was a close() call: then "ok"
            \* if it returned and "threw" if it threw

\* The Bot instance and the process handle's world
botVars == <<bot, nprocs, alive, stdin, dataL, errL, child, written, opens, calls, closed>>

VARIABLES
  inst,     \* the Bot instance: st = none | built | threw (the constructor
            \* threw), model = the model name the constructor was given
  platform, \* os.platform() of the host
  files,    \* files[a]: absent | partial | complete, the file at the path of
            \* artifact a (executablePath, modelPath)
  mode,     \* permission of the file at executablePath: none | rw | rwx
  dirs,     \* dirs[d]: missing | pending (an fs.mkdir is under way) | exists
  inits,    \* inits[i]: the i-th init() call and the downloads it started
  chmods,   \* an fs.chmod of the executable is under way
  http,     \* http[c]: the c-th request to POST /api/bot/prompt
  routes,   \* routes[i]: the caller of the i-th init(): the app.listen
            \* callback or a request to the open route
  reqs      \* reqs[q]: the q-th request to a route of the Bot, as the auth
            \* middleware has dealt with it

\* Provisioning: the constructor, init() and the file system
provVars == <<inst, platform, files, mode, dirs, inits, chmods>>

vars == <<bot, nprocs, alive, stdin, dataL, errL, child, written, opens, calls, crashed, closed,
          inst, platform, files, mode, dirs, inits, chmods, http, routes, reqs>>

\* A prompt() call: st = none | NotRunning | TypeError (it threw that) |
\* pending | resolved | rejected, buf = the closure's `response`, result =
\* the resolved text, proc = the child whose streams it used, line = which
\* write to that child was its own.
NoCall == [st |-> "none", buf |-> <<>>, result |-> <<>>, proc |-> 0, line |-> 0]
NoOpen == [st |-> "none"]

\* What has happened so far: the open() and prompt() calls made and the
\* chunks written
Events == nprocs + written + Cardinality({c \in CallIds : calls[c].st # "none"})

\* init() calls issued
MaxInits == 2
InitIds == 1..MaxInits

\* The model names the constructor accepts (42-45), and the names it is given
SupportedModels == {"gpt4all-lora-quantized", "gpt4all-lora-unfiltered-quantized"}
DefaultModel == "gpt4all-lora-quantized"
ModelNames == SupportedModels \cup {"gpt4all-lora"}

\* Values of os.platform(), and those downloadExecutable has a binary for
Platforms == {"darwin", "linux", "win32", "freebsd"}
SupportedPlatforms == {"darwin", "linux", "win32"}

\* The two files init() provides, and the directories they are in
Artifacts == {"executable", "model"}
Dirs == {"executables", "models"}
Parent(a) == IF a = "executable" THEN "executables" ELSE "models"

\* An init() call: dl[a] is the download it started for artifact a, none |
\* probing (uname) | requesting | opening | writing | resolved | rejected |
\* stalled (its promise can no longer be settled)
NoInit == [called |-> FALSE, dl |-> [a \in Artifacts |-> "none"]]

\* A request body has a prompt or not; the response has a status code and,
\* for 200, a message; call = the prompt() call the handler made
Missing == [has |-> FALSE, text |-> <<>>]
NoRequest == [st |-> "none", body |-> Missing, code |-> 0, message |-> <<>>, call |-> 0]

\* Requests to the routes of the Bot
MaxRequests == 2
ReqIds == 1..MaxRequests

\* A request to a route of the Bot: op = get | open | close | prompt, code =
\* 401 if the auth middleware answered it, 200 or 500 if the handler answered
\* at once, and 0 if the handler took the request over (http and routes hold
\* its answer)
NoAuth == [op |-> "", code |-> 0]

\* A caller of init() and open(): kind = listen (the app.listen callback) |
\* openBot (the open route), st = none | init | open (it awaits that call) |
\* ok | failed (its catch block ran), proc = the child its open() spawned
NoRoute == [st |-> "none", kind |-> "", proc |-> 0]

\* The default Bot of the server, with both files in place
Provisioned ==
  /\ inst = [st |-> "built", model |-> DefaultModel]
  /\ platform = "linux"
  /\ files = [a \in Artifacts |-> "complete"]
  /\ mode = "rwx"
  /\ dirs = [d \in Dirs |-> "exists"]
  /\ inits = [i \in InitIds |-> NoInit]
  /\ chmods = FALSE

\* No child has been spawned
NoProcess ==
  /\ bot = 0
  /\ nprocs = 0
  /\ alive = [p \in Procs |-> FALSE]
  /\ stdin = [p \in Procs |-> <<>>]
  /\ dataL = [p \in Procs |-> <<>>]
  /\ errL = [p \in Procs |-> <<>>]
  /\ child = [p \in Procs |-> [cur |-> 0, done |-> FALSE]]
  /\ written = 0
  /\ opens = [p \in Procs |-> NoOpen]
  /\ calls = [c \in CallIds |-> NoCall]
  /\ crashed = FALSE
  /\ closed = ""

Init ==
  /\ NoProcess
  /\ Provisioned
  /\ http = [c \in CallIds |-> NoRequest]
  /\ routes = [i \in InitIds |-> NoRoute]
  /\ reqs = [q \in ReqIds |-> NoAuth]

\* ------------------------------------------------------- Bot.close (105-111)
\* The handle and the liveness map after close(): a non-null handle (whose
\* stdout is always an object under stdio "pipe") is killed and cleared.
\* Faulty variant: the handle is cleared but the child is not killed
closeNoKill(b, al) ==
  [bot |-> 0, alive |-> al, threw |-> FALSE]

\* Faulty variant: no guard at line 106, so a null handle is dereferenced
closeUnguarded(b, al) ==
  IF b # 0
    THEN [bot |-> 0, alive |-> [al EXCEPT ![b] = FALSE], threw |-> FALSE]
    ELSE [bot |-> b, alive |-> al, threw |-> TRUE]

\* Faulty variant: the child is killed but the handle is kept
closeKeepsHandle(b, al) ==
  IF b # 0
    THEN [bot |-> b, alive |-> [al EXCEPT ![b] = FALSE], threw |-> FALSE]
    ELSE [bot |-> b, alive |-> al, threw |-> FALSE]

close(b, al) ==
  IF b # 0
    THEN [bot |-> 0, alive |-> [al EXCEPT ![b] = FALSE], threw |-> FALSE]
    ELSE [bot |-> b, alive |-> al, threw |-> FALSE]

Close ==
  /\ ~crashed
  /\ LET r == close(bot, alive) IN
       /\ bot' = r.bot
       /\ alive' = r.alive
       /\ closed' = IF r.threw THEN "threw" ELSE "ok"
  /\ UNCHANGED <<nprocs, stdin, dataL, errL, child, written, opens, calls, crashed>>
  /\ UNCHANGED <<provVars, http, routes, reqs>>

\* -------------------------------------------------------- Bot.open (76-100)
\* Everything up to the await runs in one turn: close an existing handle,
\* spawn, store the handle, attach the readiness listener.
\* Faulty variant: open() spawns without closing the existing handle
openRestartSkipped(b, al) ==
  [bot |-> b, alive |-> al, threw |-> FALSE]

\* lines 77-79
openRestart(b, al) ==
  IF b # 0 THEN close(b, al) ELSE [bot |-> b, alive |-> al, threw |-> FALSE]

open ==
  /\ ~crashed
  /\ nprocs < MaxOpens
  /\ Events < MaxEvents
  /\ LET r == openRestart(bot, alive)
         p == nprocs + 1
     IN /\ bot' = p
        /\ nprocs' = p
        /\ alive' = [r.alive EXCEPT ![p] = TRUE]
        /\ dataL' = [dataL EXCEPT ![p] = Append(@, <<"ready", p>>)]
        /\ opens' = [opens EXCEPT ![p] = [st |-> "waiting"]]
        /\ closed' = ""
  /\ UNCHANGED <<stdin, errL, child, written, calls, crashed>>

\* An open() call made directly on the Bot
Open ==
  /\ open
  /\ UNCHANGED <<provVars, http, routes, reqs>>

\* ------------------------------------------------------ Bot.prompt (218-298)
\* The guard of prompt(): stdin and stdout of a spawned child are objects
\* for as long as the handle refers to it, so only a null handle fails.
\* Faulty variant: the guard at line 219 is missing
NotRunningUnchecked(b) == FALSE

NotRunning(b) == b = 0

\* The text written without trimming it
PromptLineRaw(text) == text \o <<"\n">>

\* The single write prompt() makes to the child's input
PromptLine(text) == Trim(text) \o <<"\n">>

Pending(c) == calls[c].st = "pending"

\* prompt() made to end the process after its write
promptKills(c, text) ==
  /\ ~crashed
  /\ Events < MaxEvents
  /\ calls[c].st = "none"
  /\ \A d \in CallIds : d < c => calls[d].st # "none"
  /\ IF NotRunning(bot) \/ bot = 0
       THEN /\ calls' = [calls EXCEPT ![c].st =
                          IF NotRunning(bot) THEN "NotRunning" ELSE "TypeError"]
            /\ UNCHANGED <<stdin, dataL, errL, bot, alive>>
       ELSE /\ stdin' = [stdin EXCEPT ![bot] = Append(@, PromptLine(text))]
            /\ dataL' = [dataL EXCEPT ![bot] = Append(@, <<"data", c>>)]
            /\ errL' = [errL EXCEPT ![bot] = Append(@, c)]
            /\ calls' = [calls EXCEPT ![c] =
                          [st |-> "pending", buf |-> <<>>, result |-> <<>>,
                           proc |-> bot, line |-> Len(stdin[bot]) + 1]]
            /\ alive' = [alive EXCEPT ![bot] = FALSE]
            /\ bot' = 0
  /\ closed' = ""
  /\ UNCHANGED <<nprocs, child, written, opens, crashed>>

prompt(c, text) ==
  /\ ~crashed
  /\ Events < MaxEvents
  /\ calls[c].st = "none"
  /\ \A d \in CallIds : d < c => calls[d].st # "none"
  /\ IF NotRunning(bot) \/ bot = 0
       THEN \* line 220; a write through a null handle would be a TypeError
            /\ calls' = [calls EXCEPT ![c].st =
                          IF NotRunning(bot) THEN "NotRunning" ELSE "TypeError"]
            /\ UNCHANGED <<stdin, dataL, errL>>
       ELSE /\ stdin' = [stdin EXCEPT ![bot] = Append(@, PromptLine(text))]
            /\ dataL' = [dataL EXCEPT ![bot] = Append(@, <<"data", c>>)]
            /\ errL' = [errL EXCEPT ![bot] = Append(@, c)]
            /\ calls' = [calls EXCEPT ![c] =
                          [st |-> "pending", buf |-> <<>>, result |-> <<>>,
                           proc |-> bot, line |-> Len(stdin[bot]) + 1]]
  /\ closed' = ""
  /\ UNCHANGED <<bot, nprocs, alive, child, written, opens, crashed>>

\* A prompt() call made directly on the Bot
Prompt(c, text) ==
  /\ prompt(c, text)
  /\ UNCHANGED <<provVars, http, routes, reqs>>

\* --------------------------------------------------- the stream callbacks
\* The part of the state the callbacks read and write
Cb == [calls |-> calls, opens |-> opens, dataL |-> dataL, errL |-> errL, crashed |-> FALSE]

Range(f) == { f[i] : i \in DOMAIN f }

\* EventEmitter.removeListener
removeListener(ls, l) == SelectSeq(ls, LAMBDA x : x # l)

\* Promise resolve / reject: only the first settlement counts
resolve(call, value) ==
  IF call.st = "pending" THEN [call EXCEPT !.st = "resolved", !.result = value] ELSE call

reject(call) ==
  IF call.st = "pending" THEN [call EXCEPT !.st = "rejected"] ELSE call

\* the text terminateAndResolve resolves with (284-288)
FinalText(finalResponse) ==
  Trim(IF EndsWith(finalResponse, SENTINEL) THEN DropLast(finalResponse) ELSE finalResponse)

\* terminateAndResolve (276-289); the listeners are removed from the stdout
\* of the handle as it is now
terminateAndResolve(S, c, finalResponse) ==
  IF bot = 0
    THEN [S EXCEPT !.crashed = TRUE]
    ELSE [S EXCEPT !.dataL[bot] = removeListener(@, <<"data", c>>),
                   !.errL[bot] = removeListener(@, c),
                   !.calls[c] = resolve(@, FinalText(finalResponse))]

\* Faulty variant: the chunk is appended before the sentinel test
onStdoutDataAppendFirst(S, c, text) ==
  IF S.calls[c].st # "pending" THEN S
  ELSE IF Includes(text, SENTINEL)
    THEN terminateAndResolve(S, c, S.calls[c].buf \o text)
    ELSE [S EXCEPT !.calls[c].buf = @ \o text]

\* Faulty variant: every chunk ends the exchange
onStdoutDataAnyChunk(S, c, text) ==
  terminateAndResolve(S, c, S.calls[c].buf)

\* onStdoutData (234-252): the sentinel test and the resolution come before
\* the chunk is appended to the buffer.  The buffer of a settled call is
\* dead data (a later resolve() ignores its argument), so it is kept as it
\* was when the call settled.
onStdoutData(S, c, text) ==
  LET T == IF Includes(text, SENTINEL)
             THEN terminateAndResolve(S, c, S.calls[c].buf)
             ELSE S
  IN IF T.crashed \/ T.calls[c].st # "pending"
       THEN T
       ELSE [T EXCEPT !.calls[c].buf = @ \o text]

\* onStdoutError (261-269)
onStdoutError(S, c) ==
  IF bot = 0
    THEN [S EXCEPT !.crashed = TRUE]
    ELSE [S EXCEPT !.dataL[bot] = removeListener(@, <<"data", c>>),
                   !.errL[bot] = removeListener(@, c),
                   !.calls[c] = reject(@)]

\* Faulty variant: the first chunk of any kind counts as readiness
onReadyAnyChunk(S, p, text) ==
  IF S.opens[p].st = "waiting"
    THEN [S EXCEPT !.opens[p].st = "returned"]
    ELSE S

\* the readiness listener of open() (94-98); it is never removed
onReady(S, p, text) ==
  IF Includes(text, SENTINEL) /\ S.opens[p].st = "waiting"
    THEN [S EXCEPT !.opens[p].st = "returned"]
    ELSE S

\* emit("data", text) to the listeners ls
RECURSIVE EmitData(_, _, _)
EmitData(ls, text, S) ==
  IF ls = <<>> \/ S.crashed THEN S
  ELSE LET l == Head(ls) IN
       EmitData(Tail(ls), text,
                IF l[1] = "ready" THEN onReady(S, l[2], text)
                                  ELSE onStdoutData(S, l[2], text))

\* emit("error", err) to the listeners ls
RECURSIVE EmitError(_, _)
EmitError(ls, S) ==
  IF ls = <<>> \/ S.crashed THEN S
  ELSE EmitError(Tail(ls), onStdoutError(S, Head(ls)))

Install(S) ==
  /\ calls' = S.calls
  /\ opens' = S.opens
  /\ dataL' = S.dataL
  /\ errL' = S.errL
  /\ crashed' = S.crashed

\* ------------------------------------------------------------- the child
\* Somebody waits for what child p writes: its open() or a pending prompt
Heard(p) ==
  \/ opens[p].st = "waiting"
  \/ \E c \in CallIds : Pending(c) /\ <<"data", c>> \in Range(dataL[p])

\* The child writes one chunk to its stdout: the next chunk of what it is
\* writing (also text after the sentinel, and what was buffered before it
\* died, as long as somebody waits for it), or the first chunk of the answer
\* to the next line of input.
ChildWrite(p, chunk, next) ==
  /\ ~crashed
  /\ p \in 1..nprocs
  /\ alive[p] \/ Heard(p)
  /\ LET ch == child[p] IN
       /\ written < MaxChunks
       /\ Events < MaxEvents
       /\ written' = written + 1
       /\ IF next
            THEN /\ alive[p] /\ ch.done /\ Len(stdin[p]) > ch.cur
                 /\ chunk \in ChunkSet(Letter(ch.cur + 1))
                 /\ child' = [child EXCEPT ![p] = [cur |-> ch.cur + 1,
                                                   done |-> Includes(chunk, SENTINEL)]]
            ELSE /\ chunk \in ChunkSet(Letter(ch.cur))
                 /\ child' = [child EXCEPT ![p] = [ch EXCEPT
                                                   !.done = @ \/ Includes(chunk, SENTINEL)]]
  /\ Install(EmitData(dataL[p], chunk, Cb))
  /\ closed' = ""
  /\ UNCHANGED <<bot, nprocs, alive, stdin>>
  /\ UNCHANGED <<provVars, http, routes, reqs>>

\* The child's stdout emits "error" while a prompt listens for it
StreamError(p) ==
  /\ ~crashed
  /\ p \in 1..nprocs
  /\ errL[p] # <<>>
  /\ Install(EmitError(errL[p], Cb))
  /\ closed' = ""
  /\ UNCHANGED <<bot, nprocs, alive, stdin, child, written>>
  /\ UNCHANGED <<provVars, http, routes, reqs>>

\* The child exits on its own
ChildExit(p) ==
  /\ ~crashed
  /\ p \in 1..nprocs
  /\ alive[p]
  /\ alive' = [alive EXCEPT ![p] = FALSE]
  /\ closed' = ""
  /\ UNCHANGED <<bot, nprocs, stdin, dataL, errL, child, written, opens, calls, crashed>>
  /\ UNCHANGED <<provVars, http, routes, reqs>>

Next ==
  \/ Open
  \/ Close
  \/ \E c \in CallIds, text \in Prompts : Prompt(c, text)
  \/ \E p \in Procs, chunk \in Chunks, next \in BOOLEAN : ChildWrite(p, chunk, next)
  \/ \E p \in Procs : StreamError(p)
  \/ \E p \in Procs : ChildExit(p)

Spec == Init /\ [][Next]_vars

\* ------------------------------------------------- Bot.constructor (28-53)
\* Faulty variant: the constructor accepts every model name
constructorUnchecked(name) == [st |-> "built", model |-> name]

constructor(name) ==
  IF name \notin SupportedModels
    THEN [st |-> "threw", model |-> name]
    ELSE [st |-> "built", model |-> name]

\* new Bot(name); the handle field starts as null (line 14)
New(name) ==
  /\ inst.st # "built"
  /\ inst' = constructor(name)
  /\ bot' = 0
  /\ UNCHANGED <<nprocs, alive, stdin, dataL, errL, child, written, opens, calls, closed>>
  /\ UNCHANGED <<platform, files, mode, dirs, inits, chmods, crashed, http, routes, reqs>>

\* ------------------------------------------------------- Bot.init (58-71)
\* Faulty variant: init() downloads without looking at the disk
existsSyncNever(a) == FALSE

\* fs.existsSync of the artifact's path: any file there counts
existsSync(a) == files[a] # "absent"

\* downloadExecutable without the final `else` of 139-143
downloadExecutableAnyPlatform ==
  IF platform = "darwin" THEN "probing" ELSE "requesting"

\* downloadExecutable up to its first await (117-143): an unknown platform
\* throws before any request; on darwin `uname -m` is awaited first
downloadExecutable ==
  IF platform = "darwin" THEN "probing"
  ELSE IF platform \in SupportedPlatforms THEN "requesting"
  ELSE "rejected"

\* The model's download left out
downloadModelSkipped == "none"

\* downloadModel up to its first await (157-160)
downloadModel == "requesting"

\* Downloads the init() calls have started, all together, and their bound
MaxDownloads == 4
Downloads == Cardinality({x \in InitIds \X Artifacts : inits[x[1]].dl[x[2]] # "none"})

\* init() up to `await Promise.all` (59-69)
init(i) ==
  /\ ~crashed
  /\ inst.st = "built"
  /\ ~inits[i].called
  /\ Downloads + Cardinality({a \in Artifacts : ~existsSync(a)}) <= MaxDownloads
  /\ \A j \in InitIds : j < i => inits[j].called
  /\ inits' = [inits EXCEPT ![i] =
       [called |-> TRUE,
        dl |-> [a \in Artifacts |->
                  IF existsSync(a) THEN "none"
                  ELSE IF a = "executable" THEN downloadExecutable
                  ELSE downloadModel]]]
  /\ UNCHANGED <<inst, platform, files, mode, dirs, chmods>>

\* An init() call made directly on the Bot
InitCall(i) ==
  /\ init(i)
  /\ UNCHANGED <<botVars, crashed, http, routes, reqs>>

\* Promise.all over the downloads the call started (69): rejected as soon as
\* one is rejected, resolved when all are resolved
InitState(i) ==
  IF ~inits[i].called THEN "none"
  ELSE IF \E a \in Artifacts : inits[i].dl[a] = "rejected" THEN "rejected"
  ELSE IF \A a \in Artifacts : inits[i].dl[a] \in {"none", "resolved"} THEN "resolved"
  ELSE "pending"

\* The download of artifact a by init() call i moves to phase ph
Move(i, a, ph) == inits' = [inits EXCEPT ![i].dl[a] = ph]

\* `uname -m` has answered (122-129), or exec failed
Uname(i, ok) ==
  /\ ~crashed
  /\ inits[i].dl["executable"] = "probing"
  /\ Move(i, "executable", IF ok THEN "requesting" ELSE "rejected")
  /\ UNCHANGED <<botVars, crashed, http, routes, reqs>>
  /\ UNCHANGED <<inst, platform, files, mode, dirs, chmods>>

\* ----------------------------------------------- Bot.downloadFile (173-209)
\* axios.get has answered with the headers (174); the rest of downloadFile
\* runs in one turn: both fs.mkdir calls are started (their callbacks run
\* later, `await` does not wait for them), the writer is created (it opens
\* the file later) and the body is piped into it
Response(i, a) ==
  /\ ~crashed
  /\ inits[i].dl[a] = "requesting"
  /\ Move(i, a, "opening")
  /\ dirs' = [d \in Dirs |-> IF dirs[d] = "missing" THEN "pending" ELSE dirs[d]]
  /\ UNCHANGED <<botVars, crashed, http, routes, reqs>>
  /\ UNCHANGED <<inst, platform, files, mode, chmods>>

\* axios.get rejects (174): the download rejects
RequestFails(i, a) ==
  /\ ~crashed
  /\ inits[i].dl[a] = "requesting"
  /\ Move(i, a, "rejected")
  /\ UNCHANGED <<botVars, crashed, http, routes, reqs>>
  /\ UNCHANGED <<inst, platform, files, mode, dirs, chmods>>

\* An fs.mkdir started at 183 or 190 has created its directory
MkdirDone(d) ==
  /\ ~crashed
  /\ dirs[d] = "pending"
  /\ dirs' = [dirs EXCEPT ![d] = "exists"]
  /\ UNCHANGED <<botVars, crashed, http, routes, reqs>>
  /\ UNCHANGED <<inst, platform, files, mode, inits, chmods>>

\* An fs.mkdir started at 183 or 190 has failed: its callback logs and
\* throws (184-188, 191-195), in no promise's scope
MkdirFails(d) ==
  /\ ~crashed
  /\ dirs[d] = "pending"
  /\ dirs' = [dirs EXCEPT ![d] = "missing"]
  /\ crashed' = TRUE
  /\ UNCHANGED <<botVars, http, routes, reqs>>
  /\ UNCHANGED <<inst, platform, files, mode, inits, chmods>>

\* The download of a by call i has a file open for writing
Writing(i, a) == inits[i].dl[a] \in {"writing", "stalled"}

\* The writer of 197 opens the destination: this creates or truncates the
\* file; without the parent directory it emits "error" (208)
WriterOpen(i, a) ==
  /\ ~crashed
  /\ inits[i].dl[a] = "opening"
  /\ IF dirs[Parent(a)] = "exists"
       THEN /\ Move(i, a, "writing")
            /\ files' = [files EXCEPT ![a] = "partial"]
            /\ mode' = IF a = "executable" /\ mode = "none" THEN "rw" ELSE mode
       ELSE /\ Move(i, a, "rejected")
            /\ UNCHANGED <<files, mode>>
  /\ UNCHANGED <<botVars, crashed, http, routes, reqs>>
  /\ UNCHANGED <<inst, platform, dirs, chmods>>

\* The body has ended and the writer emits "finish" (206): downloadFile
\* resolves; downloadExecutable goes on to start fs.chmod (145) and resolves
\* without waiting for its callback.  While the writer of another init()
\* call has the same path open (it truncated the file when it opened, flag
\* "w" of 197, and writes the same bytes from the start), the file is whole
\* only if that writer has caught up with what was cut off
WriterFinish(i, a) ==
  /\ ~crashed
  /\ inits[i].dl[a] = "writing"
  /\ Move(i, a, "resolved")
  /\ \E st \in IF \E j \in InitIds \ {i} : Writing(j, a)
                 THEN {"partial", "complete"} ELSE {"complete"} :
       files' = [files EXCEPT ![a] = st]
  /\ chmods' = (chmods \/ a = "executable")
  /\ UNCHANGED <<botVars, crashed, http, routes, reqs>>
  /\ UNCHANGED <<inst, platform, mode, dirs>>

\* A write to the destination fails: the writer emits "error" (207) and the
\* download rejects; what was written stays on disk
WriteError(i, a) ==
  /\ ~crashed
  /\ inits[i].dl[a] = "writing"
  /\ Move(i, a, "rejected")
  /\ UNCHANGED <<botVars, crashed, http, routes, reqs>>
  /\ UNCHANGED <<inst, platform, files, mode, dirs, chmods>>

\* The connection fails in the middle of the body: the response stream emits
\* "error". downloadFile has no listener for it and pipe() does not pass it
\* on to the writer, so the promise of 205-208 is never settled; where the
\* stream has no other "error" listener either, the event is thrown as an
\* uncaught exception
BodyError(i, a, thrown) ==
  /\ ~crashed
  /\ inits[i].dl[a] = "writing"
  /\ IF thrown THEN crashed' = TRUE /\ UNCHANGED inits
               ELSE Move(i, a, "stalled") /\ UNCHANGED crashed
  /\ UNCHANGED <<botVars, http, routes, reqs>>
  /\ UNCHANGED <<inst, platform, files, mode, dirs, chmods>>

\* The fs.chmod started at 145 has set the permission
ChmodDone ==
  /\ ~crashed
  /\ chmods
  /\ chmods' = FALSE
  /\ mode' = "rwx"
  /\ UNCHANGED <<botVars, crashed, http, routes, reqs>>
  /\ UNCHANGED <<inst, platform, files, dirs, inits>>

\* The fs.chmod started at 145 has failed: its callback throws (146-148),
\* in no promise's scope
ChmodFails ==
  /\ ~crashed
  /\ chmods
  /\ chmods' = FALSE
  /\ crashed' = TRUE
  /\ UNCHANGED <<botVars, http, routes, reqs>>
  /\ UNCHANGED <<inst, platform, files, mode, dirs, inits>>

\* A host before the Bot is constructed: each file is there or not, a file
\* that is there was put there whole by an earlier run
Unprovisioned ==
  /\ inst = [st |-> "none", model |-> ""]
  /\ platform \in Platforms
  /\ files \in [Artifacts -> {"absent", "complete"}]
  /\ mode = IF files["executable"] = "complete" THEN "rwx" ELSE "none"
  /\ dirs \in [Dirs -> {"missing", "exists"}]
  /\ \A a \in Artifacts : files[a] # "absent" => dirs[Parent(a)] = "exists"
  /\ inits = [i \in InitIds |-> NoInit]
  /\ chmods = FALSE

ProvInit ==
  /\ NoProcess
  /\ Unprovisioned
  /\ http = [c \in CallIds |-> NoRequest]
  /\ routes = [i \in InitIds |-> NoRoute]
  /\ reqs = [q \in ReqIds |-> NoAuth]

ProvNext ==
  \/ \E name \in ModelNames : New(name)
  \/ \E i \in InitIds : InitCall(i)
  \/ \E i \in InitIds, ok \in BOOLEAN : Uname(i, ok)
  \/ \E i \in InitIds, a \in Artifacts : Response(i, a)
  \/ \E i \in InitIds, a \in Artifacts : RequestFails(i, a)
  \/ \E d \in Dirs : MkdirDone(d)
  \/ \E d \in Dirs : MkdirFails(d)
  \/ \E i \in InitIds, a \in Artifacts : WriterOpen(i, a)
  \/ \E i \in InitIds, a \in Artifacts : WriterFinish(i, a)
  \/ \E i \in InitIds, a \in Artifacts : WriteError(i, a)
  \/ \E i \in InitIds, a \in Artifacts, thrown \in BOOLEAN : BodyError(i, a, thrown)
  \/ ChmodDone
  \/ ChmodFails

SpecProv == ProvInit /\ [][ProvNext]_vars

\* --------------------------------------- promptBot (bot.controller, 36-51)
\* Request bodies: without a prompt, or with a prompt text
Bodies == {Missing} \cup { [has |-> TRUE, text |-> t] :
                            t \in Prompts \cup { <<>>, <<" ">> } }

\* Faulty variant: the handler does not look at the prompt
TruthyAny(body) == TRUE

\* What `!prompt` lets pass (39): a prompt that is there and not ""
Truthy(body) == body.has /\ body.text # <<>>

\* The index `response.substring(13)` starts the message at (46)
MessageStart == 13

substring(s, start) == SubSeq(s, start + 1, Len(s))

\* The prompt() call a request makes is the next one of the Bot
NextCall == CHOOSE c \in CallIds : calls[c].st = "none" /\
                                   \A d \in CallIds : d < c => calls[d].st # "none"

\* The handler up to its await: 400 without calling the Bot (39-42), or the
\* call of bot.prompt (45), whose synchronous throw is answered with 500 (49)
promptBot(r, body) ==
  /\ ~crashed
  /\ http[r].st = "none"
  /\ \A q \in CallIds : q < r => http[q].st # "none"
  /\ IF ~Truthy(body)
       THEN /\ http' = [http EXCEPT ![r] =
                 [st |-> "responded", body |-> body, code |-> 400, message |-> <<>>, call |-> 0]]
            /\ UNCHANGED <<botVars, crashed>>
       ELSE LET c == NextCall IN
            /\ prompt(c, body.text)
            /\ http' = [http EXCEPT ![r] =
                 IF calls'[c].st = "pending"
                   THEN [st |-> "awaiting", body |-> body, code |-> 0, message |-> <<>>, call |-> c]
                   ELSE [st |-> "responded", body |-> body, code |-> 500, message |-> <<>>, call |-> c]]
  /\ UNCHANGED <<provVars, routes>>

\* A request that reaches the handler, as a step of its own
PromptBot(r, body) ==
  /\ promptBot(r, body)
  /\ UNCHANGED reqs

\* Faulty variant: the handler has no catch block and answers 200
RespondUncaught(r) ==
  /\ ~crashed
  /\ http[r].st = "awaiting"
  /\ LET call == calls[http[r].call] IN
       /\ call.st \in {"resolved", "rejected"}
       /\ http' = [http EXCEPT ![r] =
            [@ EXCEPT !.st = "responded", !.code = 200,
                      !.message = substring(call.result, MessageStart)]]
  /\ UNCHANGED <<botVars, crashed, provVars, routes, reqs>>

\* The handler after its await: 200 with the message (46), or 500 (49)
Respond(r) ==
  /\ ~crashed
  /\ http[r].st = "awaiting"
  /\ LET call == calls[http[r].call] IN
       /\ call.st \in {"resolved", "rejected"}
       /\ http' = [http EXCEPT ![r] =
            IF call.st = "resolved"
              THEN [@ EXCEPT !.st = "responded", !.code = 200,
                             !.message = substring(call.result, MessageStart)]
              ELSE [@ EXCEPT !.st = "responded", !.code = 500]]
  /\ UNCHANGED <<botVars, crashed, provVars, routes, reqs>>

\* What the child of the server writes: text of any length, and the sentinel
Pad == [i \in 1..MessageStart |-> "x"]
Says == { <<"a", "b">>, Pad \o <<"a", "b">>, <<" ">>, <<SENTINEL>> }

\* The child writes a chunk to its stdout
ChildSays(p, chunk) ==
  /\ ~crashed
  /\ p \in 1..nprocs
  /\ alive[p]
  /\ written < MaxChunks
  /\ Events < MaxEvents
  /\ written' = written + 1
  /\ Install(EmitData(dataL[p], chunk, Cb))
  /\ closed' = ""
  /\ UNCHANGED <<bot, nprocs, alive, stdin, child>>
  /\ UNCHANGED <<provVars, http, routes, reqs>>

\* The Bot after open() has returned: the child has written its banner
Ready ==
  /\ bot = 1
  /\ nprocs = 1
  /\ alive = [p \in Procs |-> p = 1]
  /\ stdin = [p \in Procs |-> <<>>]
  /\ dataL = [p \in Procs |-> IF p = 1 THEN << <<"ready", 1>> >> ELSE <<>>]
  /\ errL = [p \in Procs |-> <<>>]
  /\ child = [p \in Procs |-> [cur |-> 0, done |-> p = 1]]
  /\ written = 1
  /\ opens = [p \in Procs |-> IF p = 1 THEN [st |-> "returned"] ELSE NoOpen]
  /\ calls = [c \in CallIds |-> NoCall]
  /\ crashed = FALSE
  /\ closed = ""

\* The server with its Bot open, or with no child
HttpInit ==
  /\ NoProcess \/ Ready
  /\ Provisioned
  /\ http = [c \in CallIds |-> NoRequest]
  /\ routes = [i \in InitIds |-> NoRoute]
  /\ reqs = [q \in ReqIds |-> NoAuth]

HttpNext ==
  \/ \E r \in CallIds, body \in Bodies : PromptBot(r, body)
  \/ \E r \in CallIds : Respond(r)
  \/ \E p \in Procs, chunk \in Says : ChildSays(p, chunk)
  \/ \E p \in Procs : StreamError(p)

SpecHttp == HttpInit /\ [][HttpNext]_vars

\* ------------- app.listen callback (index, 29-42), openBot (controller, 15-24)
\* Faulty variant: a rejected init() does not stop the caller
awaitInitSwallowed(i) ==
  IF InitState(i) = "rejected" THEN "resolved" ELSE InitState(i)

\* What `await bot.init()` gives its caller: it returns when the call has
\* resolved and throws when it has rejected
awaitInit(i) == InitState(i)

\* The caller up to its await of bot.init() (index 36, controller 17); the
\* callback runs once
begin(i, kind) ==
  /\ routes[i].st = "none"
  /\ kind = "listen" => \A j \in InitIds : routes[j].kind # "listen"
  /\ init(i)
  /\ routes' = [routes EXCEPT ![i] = [st |-> "init", kind |-> kind, proc |-> 0]]
  /\ UNCHANGED <<botVars, crashed, http>>

\* The caller begins, as a step of its own
Begin(i, kind) ==
  /\ begin(i, kind)
  /\ UNCHANGED reqs

\* The caller after that await: bot.open() up to its await (index 37,
\* controller 18), or the catch block: openBot answers 500 (controller 22),
\* the callback closes the Bot (index 39)
AfterInit(i) ==
  /\ ~crashed
  /\ routes[i].st = "init"
  /\ awaitInit(i) \in {"resolved", "rejected"}
  /\ IF awaitInit(i) = "resolved"
       THEN /\ open
            /\ routes' = [routes EXCEPT ![i] = [@ EXCEPT !.st = "open", !.proc = nprocs + 1]]
       ELSE /\ routes' = [routes EXCEPT ![i].st = "failed"]
            /\ IF routes[i].kind = "listen"
                 THEN LET r == close(bot, alive) IN
                      /\ bot' = r.bot
                      /\ alive' = r.alive
                      /\ closed' = "ok"
                      /\ UNCHANGED <<nprocs, stdin, dataL, errL, child, written, opens, calls>>
                 ELSE UNCHANGED botVars
            /\ UNCHANGED crashed
  /\ UNCHANGED <<provVars, http, reqs>>

\* The caller after open() has returned: openBot answers 200 (controller 19)
AfterOpen(i) ==
  /\ ~crashed
  /\ routes[i].st = "open"
  /\ opens[routes[i].proc].st = "returned"
  /\ routes' = [routes EXCEPT ![i].st = "ok"]
  /\ UNCHANGED <<botVars, crashed, provVars, http, reqs>>

\* The status code the open route has answered with
Code(i) ==
  IF routes[i].kind # "openBot" THEN 0
  ELSE IF routes[i].st = "ok" THEN 200
  ELSE IF routes[i].st = "failed" THEN 500
  ELSE 0

\* A host on which the server provisions at its start, with the default
\* Bot (controller, 4): the executable is in place, the model file is there
\* or has to be downloaded
BootHost ==
  /\ inst = [st |-> "built", model |-> DefaultModel]
  /\ platform = "linux"
  /\ files \in [Artifacts -> {"absent", "complete"}]
  /\ files["executable"] = "complete"
  /\ mode = "rwx"
  /\ dirs = [d \in Dirs |-> "exists"]
  /\ inits = [i \in InitIds |-> NoInit]
  /\ chmods = FALSE

\* The readiness chunk of the child
Banner == { <<SENTINEL>> }

BootInit ==
  /\ NoProcess
  /\ BootHost
  /\ http = [c \in CallIds |-> NoRequest]
  /\ routes = [i \in InitIds |-> NoRoute]
  /\ reqs = [q \in ReqIds |-> NoAuth]

\* The callers of init() and open(), the downloads and the child
BootNext ==
  \/ \E i \in InitIds, kind \in {"listen", "openBot"} : Begin(i, kind)
  \/ \E i \in InitIds : AfterInit(i)
  \/ \E i \in InitIds : AfterOpen(i)
  \/ \E p \in Procs, chunk \in Banner : ChildSays(p, chunk)
  \/ \E i \in InitIds, a \in Artifacts : Response(i, a)
  \/ \E i \in InitIds, a \in Artifacts : RequestFails(i, a)
  \/ \E i \in InitIds, a \in Artifacts : WriterOpen(i, a)
  \/ \E i \in InitIds, a \in Artifacts : WriterFinish(i, a)
  \/ \E i \in InitIds, a \in Artifacts : WriteError(i, a)

SpecBoot == BootInit /\ [][BootNext]_vars

\* A host on which init() settles at once: both files are in place, or the
\* executable is missing and the platform has no binary
Host ==
  /\ inst = [st |-> "built", model |-> DefaultModel]
  /\ \/ platform = "linux" /\ files = [a \in Artifacts |-> "complete"] /\ mode = "rwx"
     \/ /\ platform = "freebsd"
        /\ files = [a \in Artifacts |-> IF a = "model" THEN "complete" ELSE "absent"]
        /\ mode = "none"
  /\ dirs = [d \in Dirs |-> "exists"]
  /\ inits = [i \in InitIds |-> NoInit]
  /\ chmods = FALSE

\* The requests and the child's chunks the server is run with
ServerBodies == { [has |-> TRUE, text |-> <<"h">>] }
ServerSays == { <<SENTINEL>> }

ServerInit ==
  /\ NoProcess
  /\ Host
  /\ http = [c \in CallIds |-> NoRequest]
  /\ routes = [i \in InitIds |-> NoRoute]
  /\ reqs = [q \in ReqIds |-> NoAuth]

\* The routes of the Bot, the callback and the child
ServerNext ==
  \/ \E i \in InitIds, kind \in {"listen", "openBot"} : Begin(i, kind)
  \/ \E i \in InitIds : AfterInit(i)
  \/ \E i \in InitIds : AfterOpen(i)
  \/ \E r \in CallIds, body \in ServerBodies : PromptBot(r, body)
  \/ \E r \in CallIds : Respond(r)
  \/ \E p \in Procs, chunk \in ServerSays : ChildSays(p, chunk)
  \/ \E p \in Procs : StreamError(p)

SpecServer == ServerInit /\ [][ServerNext]_vars

\* ------------------------------------- the routes of the Bot (bot.routes)
\* Every route of the Bot is registered as (authMiddleware, handler).
Ops == {"get", "open", "close", "prompt"}

\* A token that jwt.verify accepts with the server's secret (signed with it
\* and not expired); every other value makes it throw
GoodToken == <<"g">>

\* Authorization headers: none, a bare token, a scheme and a good or a bad
\* token, and a good token after two spaces
Headers == { <<>>, <<"g">>, <<"B", " ", "g">>, <<"B", " ", "b">>, <<"B", " ", " ", "g">> }

\* `undefined`, as an index beyond the end of an array gives
Undefined == <<"undefined">>

\* String.prototype.split(" ")
RECURSIVE split(_)
split(s) ==
  IF ~Includes(s, " ") THEN <<s>>
  ELSE LET k == CHOOSE k \in 1..Len(s) : s[k] = " " /\ \A j \in 1..(k - 1) : s[j] # " "
       IN <<SubSeq(s, 1, k - 1)>> \o split(SubSeq(s, k + 1, Len(s)))

\* authHeader.split(" ")[1]
Token(authHeader) ==
  LET words == split(authHeader) IN
    IF Len(words) >= 2 THEN words[2] ELSE Undefined

\* jwt.verify(token, secret) returns; otherwise it throws
verify(token) == token = GoodToken

\* Faulty variant: the token is not verified
authMiddlewareNoVerify(authHeader) ==
  IF authHeader = <<>> THEN 401 ELSE 0

\* authMiddleware: the status it answers with, or 0 if it calls next()
authMiddleware(authHeader) ==
  IF authHeader = <<>> THEN 401
  ELSE IF verify(Token(authHeader)) THEN 0
  ELSE 401

\* A request to a route of the Bot: the middleware, and if it calls next()
\* the handler up to its first await
Request(q, op, authHeader, body) ==
  /\ ~crashed
  /\ reqs[q].op = ""
  /\ \A j \in ReqIds : j < q => reqs[j].op # ""
  /\ IF authMiddleware(authHeader) # 0
       THEN /\ reqs' = [reqs EXCEPT ![q] = [op |-> op, code |-> authMiddleware(authHeader)]]
            /\ UNCHANGED <<botVars, crashed, provVars, http, routes>>
       ELSE \/ /\ op = "get"
               /\ reqs' = [reqs EXCEPT ![q] = [op |-> op, code |-> 200]]
               /\ UNCHANGED <<botVars, crashed, provVars, http, routes>>
            \/ /\ op = "close"
               /\ LET r == close(bot, alive) IN
                    /\ bot' = r.bot
                    /\ alive' = r.alive
                    /\ closed' = IF r.threw THEN "threw" ELSE "ok"
                    /\ reqs' = [reqs EXCEPT ![q] =
                                 [op |-> op, code |-> IF r.threw THEN 500 ELSE 200]]
               /\ UNCHANGED <<nprocs, stdin, dataL, errL, child, written, opens, calls>>
               /\ UNCHANGED <<crashed, provVars, http, routes>>
            \/ /\ op = "open"
               /\ \E i \in InitIds : begin(i, "openBot")
               /\ reqs' = [reqs EXCEPT ![q] = [op |-> op, code |-> 0]]
            \/ /\ op = "prompt"
               /\ \E r \in CallIds : promptBot(r, body)
               /\ reqs' = [reqs EXCEPT ![q] = [op |-> op, code |-> 0]]

\* Request bodies: without a prompt, or with a prompt text
AuthBodies == ServerBodies \cup {Missing}

AuthNext ==
  \/ \E q \in ReqIds, op \in Ops, authHeader \in Headers, body \in AuthBodies :
       Request(q, op, authHeader, body)
  \/ \E i \in InitIds : AfterInit(i)
  \/ \E i \in InitIds : AfterOpen(i)
  \/ \E r \in CallIds : Respond(r)
  \/ \E p \in Procs, chunk \in ServerSays : ChildSays(p, chunk)

SpecAuth == HttpInit /\ [][AuthNext]_vars

\* A call of init() or prompt() on the Bot starts in this step, a close()
\* shows (the handle becomes null, or the outcome of the last call is now
\* that of a close()), or a handler of the open or the prompt route takes a
\* request over
InvokesBot ==
  \/ \E i \in InitIds : ~inits[i].called /\ inits'[i].called
  \/ \E c \in CallIds : calls[c].st = "none" /\ calls'[c].st # "none"
  \/ bot # 0 /\ bot' = 0
  \/ closed' # closed /\ closed' # ""
  \/ \E i \in InitIds : routes[i].st = "none" /\ routes'[i].st # "none"
  \/ \E r \in CallIds : http[r].st = "none" /\ http'[r].st # "none"

\* C38: a request to a route of the Bot that has no Authorization header, or
\* whose token jwt.verify does not accept, is answered 401 and leaves the Bot,
\* its files and the handlers untouched; init(), prompt() and close() are
\* called, and a handler takes a request over, only in the step of a request
\* whose token was verified, and open() only by an open route so begun.
C38_AuthBeforeBot ==
  [][ /\ \A q \in ReqIds, op \in Ops, authHeader \in Headers, body \in AuthBodies :
           (Request(q, op, authHeader, body) /\
            (authHeader = <<>> \/ ~verify(Token(authHeader))))
             => /\ reqs'[q] = [op |-> op, code |-> 401]
                /\ UNCHANGED <<botVars, crashed, provVars, http, routes>>
      /\ InvokesBot
           => \E q \in ReqIds, op \in Ops, authHeader \in Headers, body \in AuthBodies :
                /\ Request(q, op, authHeader, body)
                /\ authHeader # <<>>
                /\ verify(Token(authHeader))
                /\ reqs'[q].code # 401
      /\ nprocs' # nprocs
           => \E i \in InitIds : routes[i] = [st |-> "init", kind |-> "openBot", proc |-> 0]
    ]_vars

\* A prompt request refused with 401 while the Bot had no call, then one with
\* a verified token whose handler called prompt() and awaits it
C38_Witness ==
  /\ reqs[1] = [op |-> "prompt", code |-> 401]
  /\ reqs[2] = [op |-> "prompt", code |-> 0]
  /\ http[1].st = "awaiting"
  /\ http[2].st = "none"
  /\ calls[1].st = "pending"
  /\ calls[2].st = "none"

\* ------------------------------------------------- readiness under fairness
\* A running child that has not yet shown its prompt writes the chunk with
\* the readiness sentinel, and the stream delivers it.  This start-up chunk
\* is outside the chunk budget: each child writes it once.
ShowsPrompt(p) ==
  /\ ~crashed
  /\ p \in 1..nprocs
  /\ alive[p]
  /\ child[p].cur = 0 /\ ~child[p].done
  /\ child' = [child EXCEPT ![p].done = TRUE]
  /\ Install(EmitData(dataL[p], <<SENTINEL, " ">>, Cb))
  /\ closed' = ""
  /\ UNCHANGED <<bot, nprocs, alive, stdin, written>>
  /\ UNCHANGED <<provVars, http, routes, reqs>>

\* The Bot with children that run until they are killed
LiveNext ==
  \/ Open
  \/ Close
  \/ \E c \in CallIds, text \in Prompts : Prompt(c, text)
  \/ \E p \in Procs, chunk \in Chunks, next \in BOOLEAN : ChildWrite(p, chunk, next)
  \/ \E p \in Procs : StreamError(p)
  \/ \E p \in Procs : ShowsPrompt(p)

\* Fairness: a child that runs gets to its prompt, and the event loop
\* delivers what it wrote.  Nothing obliges a killed child to write.
SpecLive == Init /\ [][LiveNext]_vars /\ \A p \in Procs : WF_vars(ShowsPrompt(p))

\* ------------------------------------------------------ sequential prompts
\* A caller that opens the Bot once and issues each prompt() only when the
\* Bot is Open and every earlier call has resolved
SeqOpen == nprocs = 0 /\ Open

SeqPrompt(c, text) ==
  /\ bot # 0 /\ opens[bot].st = "returned"
  /\ \A d \in CallIds : d < c => calls[d].st = "resolved"
  /\ Prompt(c, text)

SeqNext ==
  \/ SeqOpen
  \/ \E c \in CallIds, text \in Prompts : SeqPrompt(c, text)
  \/ \E p \in Procs, chunk \in Chunks, next \in BOOLEAN : ChildWrite(p, chunk, next)
  \/ \E p \in Procs : StreamError(p)
  \/ \E p \in Procs : ChildExit(p)

SpecSeq == Init /\ [][SeqNext]_vars

\* ------------------------------------------------------------ properties
\* The step issues the prompt() call c
Issues(c) == calls[c].st = "none" /\ calls'[c].st # "none"

\* The step is an open() call
Opens == nprocs' = nprocs + 1

\* The lifecycle state Open: a handle whose open() has observed readiness
IsOpen == bot # 0 /\ opens[bot].st = "returned"

\* C1: of two prompt() calls pending together on one process, each resolves
\* with its own answer only: the text one resolves with contains nothing of
\* the answer to the other.
C1_OwnAnswerOnly ==
  [][ \A c, d \in CallIds :
        ( /\ c # d /\ Pending(c) /\ Pending(d)
          /\ calls[c].proc = calls[d].proc
          /\ calls'[c].st = "resolved" )
          => \A i \in 1..Len(calls'[c].result) :
               calls'[c].result[i] # Letter(calls[d].line) ]_vars

\* C2: at most one prompt exchange (one data and one error listener of a
\* prompt() call) is attached to a child's output stream.
C2_OneExchangePerStream ==
  \A p \in Procs :
    /\ Cardinality({ i \in 1..Len(dataL[p]) : dataL[p][i][1] = "data" }) <= 1
    /\ Len(errL[p]) <= 1

\* The text is made of the letter L and whitespace
OnlyLetter(s, L) == \A i \in 1..Len(s) : s[i] \in {L} \cup White

\* C3: when the chunks a prompt received are the child's answer to it, the
\* last of them being the first with the sentinel, the prompt resolves to
\* the concatenation of all of them, with one trailing '>' stripped and
\* trimmed ('world>' gives 'world'): the resolved text is the text received
\* before the last chunk, followed by one of the chunks that end the answer.
C3_ResolvesEveryChunk ==
  [][ \A c \in CallIds :
        ( /\ Pending(c) /\ calls'[c].st = "resolved"
          /\ OnlyLetter(calls[c].buf, Letter(calls[c].line))
          /\ child'[calls[c].proc].cur = calls[c].line )
          => \E last \in ChunkSet(Letter(calls[c].line)) :
               /\ Includes(last, SENTINEL)
               /\ calls'[c].result = FinalText(calls[c].buf \o last) ]_vars

\* C4: every live child is the one the handle refers to: at most one child
\* is alive, and none while the handle is null.
C4_OnlyHandleAlive ==
  \A p \in Procs : alive[p] => bot = p

\* a second open() was issued while the first was still waiting
C4_Witness ==
  /\ nprocs = 2 /\ bot = 2
  /\ opens[1].st = "waiting" /\ opens[2].st = "waiting"
  /\ alive[2] /\ ~alive[1]
  /\ written = 0

\* C5: open() on a Bot that has a handle does not fail: the child of that
\* handle is dead and the handle refers to the new, live child, whose
\* readiness the call awaits.
C5_OpenRestarts ==
  [][ (Opens /\ bot # 0)
        => /\ ~alive'[bot]
           /\ bot' # bot /\ bot' = nprocs' /\ alive'[bot']
           /\ opens'[bot'].st = "waiting"
           /\ ~crashed' ]_vars

\* open() twice in succession: the second after the first returned
C5_Witness ==
  /\ nprocs = 2 /\ bot = 2
  /\ opens[1].st = "returned" /\ opens[2].st = "waiting"
  /\ alive[2] /\ ~alive[1]

\* C6: prompt() before any open() fails with NotRunning, spawns nothing,
\* writes nothing, attaches no listener and leaves the handle null.
C6_PromptBeforeOpen ==
  [][ \A c \in CallIds :
        (Issues(c) /\ nprocs = 0)
          => /\ calls'[c].st = "NotRunning"
             /\ bot' = 0
             /\ UNCHANGED <<bot, nprocs, alive, stdin, dataL, errL>> ]_vars

C6_Witness ==
  /\ calls[1].st = "NotRunning"
  /\ nprocs = 0 /\ bot = 0

\* C7: prompt() made in any state other than Open (also while open() still
\* waits for readiness) fails with NotRunning and writes nothing.
C7_PromptOnlyWhenOpen ==
  [][ \A c \in CallIds :
        (Issues(c) /\ ~IsOpen)
          => /\ calls'[c].st = "NotRunning"
             /\ UNCHANGED stdin ]_vars

\* C8: prompt() on a handle whose child has exited fails with NotRunning
\* instead of writing to the dead child.
C8_PromptOnDeadChild ==
  [][ \A c \in CallIds :
        (Issues(c) /\ bot # 0 /\ ~alive[bot])
          => /\ calls'[c].st = "NotRunning"
             /\ UNCHANGED stdin ]_vars

\* C9: a stream error on the output a pending prompt listens to rejects that
\* call and detaches both of its listeners from that stream.
C9_StreamErrorRejects ==
  [][ \A p \in Procs, c \in CallIds :
        (StreamError(p) /\ Pending(c) /\ c \in Range(errL[p]))
          => /\ calls'[c].st = "rejected"
             /\ ~crashed'
             /\ c \notin Range(errL'[p])
             /\ <<"data", c>> \notin Range(dataL'[p]) ]_vars

\* C10: close() with a null handle does not throw and changes nothing;
\* close() always leaves the handle null (so a second close() is that
\* no-op); an open() that follows a close() spawns a live child and waits
\* for its readiness.
C10_CloseIsSafe ==
  [][ /\ (closed' # "" /\ bot = 0)
         => /\ closed' = "ok"
            /\ UNCHANGED <<bot, nprocs, alive, stdin, dataL, errL, child, written, opens,
                           calls, crashed>>
      /\ closed' = "ok" => bot' = 0
      /\ (closed = "ok" /\ Opens)
         => /\ bot' = nprocs' /\ alive'[bot']
            /\ opens'[bot'].st = "waiting" ]_vars

\* close() has acted on a Bot that was never opened
C10_Witness ==
  /\ closed = "ok"
  /\ nprocs = 0 /\ bot = 0

\* C11: close() completes without error in every state, also while an
\* open() awaits readiness and while a prompt is pending: afterwards the
\* handle is null, the child it referred to is dead, and no child is alive.
C11_CloseFromAnyState ==
  [][ closed' # ""
        => /\ closed' = "ok"
           /\ bot' = 0
           /\ bot # 0 => ~alive'[bot]
           /\ \A p \in Procs : ~alive'[p]
           /\ crashed' = crashed ]_vars

\* close() has acted while open() awaited readiness and a prompt was pending
C11_Witness ==
  /\ closed = "ok" /\ bot = 0
  /\ opens[1].st = "waiting" /\ ~alive[1]
  /\ Pending(1) /\ calls[1].proc = 1

\* The child p has written a chunk with the sentinel
WroteSentinel(p) == child[p].cur > 0 \/ child[p].done

\* C12: an open() call returns only when the child it spawned writes a chunk
\* that contains '>': it has not returned while that child has written no
\* such chunk, and nothing else (no timeout) makes it return.
C12_OpenAwaitsSentinel ==
  [][ \A p \in Procs :
        /\ opens'[p].st = "returned" => WroteSentinel(p)'
        /\ (opens[p].st # "returned" /\ opens'[p].st = "returned")
             => /\ opens[p].st = "waiting"
                /\ \E chunk \in Chunks, next \in BOOLEAN :
                     Includes(chunk, SENTINEL) /\ ChildWrite(p, chunk, next) ]_vars

\* open() still waits after banner text without the sentinel
C12_Witness ==
  /\ opens[1].st = "waiting"
  /\ written = 2 /\ child[1].cur = 0 /\ ~child[1].done
  /\ alive[1] /\ bot = 1

\* The step issues the init() call i
Calls(i) == ~inits[i].called /\ inits'[i].called

\* The init() call i started no download
NoDownload(i) == \A a \in Artifacts : inits[i].dl[a] = "none"

\* C13: an init() call made when both files exist starts no download (no
\* HTTP request), resolves, and changes no file, directory or permission; so
\* an init() call made after one that resolved starts no download either.
C13_InitIsNoOp ==
  [][ \A i \in InitIds :
        Calls(i) =>
          /\ (\A a \in Artifacts : existsSync(a))
               => /\ NoDownload(i)'
                  /\ InitState(i)' = "resolved"
                  /\ UNCHANGED <<files, mode, dirs, chmods>>
          /\ (\E j \in InitIds : InitState(j) = "resolved")
               => NoDownload(i)' /\ InitState(i)' = "resolved" ]_vars

\* A second init() was a no-op after the first downloaded both files
C13_Witness ==
  /\ \A a \in Artifacts : inits[1].dl[a] = "resolved"
  /\ inits[2].called /\ NoDownload(2)
  /\ inst.model = "gpt4all-lora-unfiltered-quantized"

\* C14: an init() call made after one that failed in the middle of the
\* download of an artifact, with the partial file left at its path and nobody
\* writing it any more, downloads that artifact again.
C14_RetryDownloadsAgain ==
  [][ \A i \in InitIds, a \in Artifacts :
        ( /\ Calls(i)
          /\ files[a] = "partial"
          /\ \E j \in InitIds : inits[j].dl[a] = "rejected"
          /\ \A j \in InitIds : inits[j].dl[a] \notin {"opening", "writing", "stalled"} )
        => inits'[i].dl[a] \notin {"none"} ]_vars

\* C15: when an init() call that downloaded the executable has resolved, the
\* executable has its permission.
C15_ChmodBeforeInitResolves ==
  \A i \in InitIds :
    (InitState(i) = "resolved" /\ inits[i].dl["executable"] = "resolved")
      => mode = "rwx"

\* C16: when the permission change of a downloaded executable fails, an
\* init() call that downloaded it rejects, and nothing is thrown outside it.
C16_ChmodFailureRejects ==
  [][ ChmodFails
        => /\ ~crashed'
           /\ \E i \in InitIds : /\ inits[i].dl["executable"] = "resolved"
                                 /\ InitState(i)' = "rejected" ]_vars

\* C17: an error of a download, of the request, of the body stream or of a
\* write to disk, leaves the init() call rejected, with nothing thrown outside
\* it, and the download is not started again by that call.
C17_DownloadErrorRejects ==
  [][ \A i \in InitIds, a \in Artifacts :
        /\ ( \/ RequestFails(i, a)
             \/ WriteError(i, a)
             \/ \E thrown \in BOOLEAN : BodyError(i, a, thrown) )
             => InitState(i)' = "rejected" /\ ~crashed'
        /\ inits[i].dl[a] \in {"rejected", "stalled"}
             => inits'[i].dl[a] = inits[i].dl[a] ]_vars

\* C18: the constructor throws for a model name outside the supported set
\* and builds the Bot, with a null handle, for a name in it; a Bot that has
\* been built has a supported model.
C18_ConstructorChecksModel ==
  /\ [](inst.st = "built" => inst.model \in SupportedModels)
  /\ [][ \A name \in ModelNames :
           New(name) => IF name \in SupportedModels
                          THEN inst' = [st |-> "built", model |-> name] /\ bot' = 0
                          ELSE inst'.st = "threw" ]_vars

\* The constructor has thrown for an unsupported name
C18_Witness == inst.st = "threw" /\ inst.model = "gpt4all-lora"

\* The step handles the request r
Handles(r) == http[r].st = "none" /\ http'[r].st # "none"

\* C19, as claimed: a request without a prompt or with an empty one is
\* answered 400 without calling the Bot, and no line written to the child is
\* empty.
C19_NoEmptyLine ==
  [][ \A r \in CallIds :
        Handles(r) =>
          /\ (~http'[r].body.has \/ http'[r].body.text = <<>>)
               => http'[r].code = 400 /\ UNCHANGED botVars
          /\ \A p \in Procs :
               stdin'[p] # stdin[p] => stdin'[p][Len(stdin'[p])] # <<"\n">> ]_vars

\* C19, amended: a request without a prompt or with an empty one is answered
\* 400 without calling the Bot, so the prompt given to prompt() is never
\* missing or empty (its trimmed text can be).
C19_EmptyPromptRefused ==
  [][ \A r \in CallIds :
        Handles(r) =>
          /\ (~http'[r].body.has \/ http'[r].body.text = <<>>)
               => http'[r].code = 400 /\ UNCHANGED botVars
          /\ calls' # calls
               => http'[r].body.has /\ http'[r].body.text # <<>> ]_vars

\* An empty prompt was answered 400 while the Bot was open
C19_Witness ==
  /\ http[1].st = "responded" /\ http[1].code = 400
  /\ http[1].body = [has |-> TRUE, text |-> <<>>]
  /\ bot = 1 /\ stdin[1] = <<>> /\ calls[1].st = "none"

\* C20: the message of a 200 response is the text prompt() resolved with.
C20_MessageIsResponse ==
  [][ \A r \in CallIds :
        (http[r].st = "awaiting" /\ http'[r].code = 200)
          => http'[r].message = calls[http[r].call].result ]_vars

\* C21: the callback and the open route call open() only once the init()
\* call they made has resolved: a child is spawned only by a caller whose
\* init() has resolved, and a caller whose init() has rejected goes to its
\* catch block without spawning.
C21_OpenAfterInit ==
  [][ /\ \A i \in InitIds :
           (routes[i].st = "init" /\ routes'[i].st # "init")
             => IF InitState(i) = "resolved"
                  THEN Opens /\ routes'[i].st = "open" /\ routes'[i].proc = nprocs'
                  ELSE /\ InitState(i) = "rejected"
                       /\ routes'[i].st = "failed"
                       /\ UNCHANGED <<nprocs, opens, dataL>>
      /\ Opens => \E i \in InitIds : /\ routes[i].st = "init"
                                     /\ routes'[i].st = "open"
                                     /\ InitState(i) = "resolved" ]_vars

\* A caller's init() failed in its download and it did not open; the next
\* caller's init() downloaded the model and it opened
C21_Witness ==
  /\ routes[1].st = "failed" /\ InitState(1) = "rejected"
  /\ routes[2].st = "open" /\ inits[2].dl["model"] = "resolved"
  /\ nprocs = 1 /\ routes[2].proc = 1

\* The prompt() call the request r made has failed: it threw or rejected
Failed(r) ==
  /\ http[r].call # 0
  /\ calls[http[r].call].st \in {"NotRunning", "TypeError", "rejected"}

\* C22: a request whose prompt() call threw has been answered 500; a request
\* whose prompt() call rejected is answered 500 when it is answered; a
\* request to the open route whose init() rejected is answered 500 when its
\* handler goes on; and 200 is the answer only to a call that resolved, and
\* only to an open route whose init() resolved and whose open() returned.
C22_FailureIs500 ==
  /\ \A r \in CallIds :
       /\ (Failed(r) /\ calls[http[r].call].st # "rejected")
            => http[r].st = "responded"
       /\ (Failed(r) /\ http[r].st = "responded") => http[r].code = 500
       /\ http[r].code = 200 => calls[http[r].call].st = "resolved"
  /\ \A i \in InitIds :
       routes[i].kind = "openBot" =>
         /\ (InitState(i) = "rejected" /\ routes[i].st # "init") => Code(i) = 500
         /\ Code(i) = 200 => /\ InitState(i) = "resolved"
                             /\ opens[routes[i].proc].st = "returned"

\* On a platform without a binary the open route was answered 500, and so
\* was the prompt that followed
C22_Witness ==
  /\ routes[1].kind = "openBot" /\ Code(1) = 500
  /\ calls[1].st = "NotRunning" /\ http[1].code = 500
  /\ http[2].st = "none"

\* The call c is pending and its data listener is on the stdout of child p
Listens(c, p) == Pending(c) /\ <<"data", c>> \in Range(dataL[p])

\* C23: a chunk with the sentinel, at any position, that is delivered to the
\* listener of a pending call resolves the call, with the text of the chunks
\* before it; a resolved call is never changed by a later chunk.
C23_FirstSentinelEnds ==
  [][ \A c \in CallIds :
        /\ \A p \in Procs, chunk \in Chunks, next \in BOOLEAN :
             (Listens(c, p) /\ Includes(chunk, SENTINEL) /\ ChildWrite(p, chunk, next))
               => /\ calls'[c].st = "resolved"
                  /\ calls'[c].result = FinalText(calls[c].buf)
        /\ calls[c].st = "resolved" => calls'[c] = calls[c] ]_vars

C25_ListenersRemoved ==
  \A c \in CallIds :
    calls[c].st \in {"resolved", "rejected"}
      => /\ <<"data", c>> \notin Range(dataL[calls[c].proc])
         /\ c \notin Range(errL[calls[c].proc])

\* C26: an accepted prompt() call makes exactly one write to the child's
\* input stream, the prompt text with the surrounding whitespace removed
\* followed by one newline; the call's listener is attached in the same
\* step, after the write, with an empty response, so no chunk reaches it
\* before the write; nothing else ever writes to an input stream.
C26_OneTrimmedLine ==
  [][ /\ \A c \in CallIds, text \in Prompts :
           (Prompt(c, text) /\ calls'[c].st = "pending")
             => /\ stdin' = [stdin EXCEPT ![bot] = Append(@, Trim(text) \o <<"\n">>)]
                /\ calls'[c].buf = <<>>
                /\ calls'[c].line = Len(stdin'[bot])
                /\ <<"data", c>> \notin Range(dataL[bot])
                /\ <<"data", c>> \in Range(dataL'[bot])
      /\ stdin' # stdin
           => \E c \in CallIds : /\ calls[c].st = "none" /\ calls'[c].st = "pending"
                                 /\ \E text \in Prompts : Prompt(c, text) ]_vars

\* Two calls were accepted by the same child and each wrote its own line
C26_Witness ==
  /\ calls[1].st = "resolved" /\ calls[2].st = "pending"
  /\ stdin[1] = << <<"h", "\n">>, <<"h", "\n">> >>
  /\ calls[1].line = 1 /\ calls[2].line = 2

\* C27: prompt() never spawns or kills a process and never changes the
\* handle: in the step that makes the call and in every step that delivers
\* to it (so whether it resolves, rejects or stays pending) the handle, the
\* set of children and which of them live are unchanged, and a Bot that was
\* Open is still Open.
C27_PromptKeepsHandle ==
  [][ (\E c \in CallIds : calls'[c] # calls[c])
        => /\ UNCHANGED <<bot, nprocs, alive>>
           /\ IsOpen => IsOpen' ]_vars

\* One call resolved, one rejected, and the handle still is the live child
C27_Witness ==
  /\ calls[1].st = "resolved" /\ calls[2].st = "rejected"
  /\ bot = 1 /\ nprocs = 1 /\ alive[1] /\ IsOpen

\* C28: init() starts a download for exactly the artifacts whose path does
\* not exist, each decided on its own, and all of them in the one step of
\* the call, none waiting for another.
C28_DownloadsMissing ==
  [][ \A i \in InitIds :
        Calls(i) =>
          \A a \in Artifacts :
            /\ inits'[i].dl[a] # "none" <=> files[a] = "absent"
            /\ inits'[i].dl[a] \notin {"writing", "resolved"} ]_vars

\* Both were missing and both downloads were started: the model's has
\* finished while the executable's still waits for its response
C28_Witness ==
  /\ inits[1].dl["executable"] = "requesting"
  /\ inits[1].dl["model"] = "resolved"
  /\ files["model"] = "complete"

\* The init() call i settles as resolved in this step
Resolves(i) == InitState(i) # "resolved" /\ InitState(i)' = "resolved"

\* C29: init() resolves only after every download it started has finished
\* writing: in the step in which an init() call resolves, every download it
\* started has resolved and the file of each artifact it downloaded is
\* completely written on disk.
C29_ResolvedMeansWritten ==
  [][ \A i \in InitIds :
        Resolves(i) =>
          \A a \in Artifacts :
            inits'[i].dl[a] # "none"
              => inits'[i].dl[a] = "resolved" /\ files'[a] = "complete" ]_vars

\* C30: in a download the parent directory of the destination exists
\* before the destination is opened for writing: when the writer opens the
\* file the directory's creation has completed, and a creation that fails
\* fails the downloads that wait for the directory and nothing else.
C30_DirsBeforeOpen ==
  [][ /\ \A i \in InitIds, a \in Artifacts :
           WriterOpen(i, a) => dirs[Parent(a)] = "exists"
      /\ \A d \in Dirs :
           MkdirFails(d)
             => /\ ~crashed'
                /\ \A i \in InitIds, a \in Artifacts :
                     (inits[i].dl[a] = "opening" /\ Parent(a) = d)
                       => inits'[i].dl[a] = "rejected" ]_vars

\* C31: on a platform other than darwin, linux and win32 an init() call
\* that finds no executable rejects; no request for the executable is ever
\* issued there and no executable file is written.
C31_UnsupportedPlatform ==
  [][ platform \notin SupportedPlatforms
        => /\ \A i \in InitIds :
                (Calls(i) /\ ~existsSync("executable"))
                  => /\ inits'[i].dl["executable"] = "rejected"
                     /\ InitState(i)' = "rejected"
           /\ \A i \in InitIds : inits'[i].dl["executable"] \in {"none", "rejected"}
           /\ files'["executable"] = files["executable"]
           /\ mode' = mode ]_vars

\* On such a platform init() has rejected without an executable, while the
\* model it also missed has been downloaded
C31_Witness ==
  /\ platform = "freebsd"
  /\ InitState(1) = "rejected"
  /\ inits[1].dl["executable"] = "rejected"
  /\ inits[1].dl["model"] = "resolved"
  /\ files["executable"] = "absent"

C33_OpenReturns ==
  \A p \in Procs :
    (opens[p].st = "waiting") ~> (opens[p].st = "returned" \/ crashed)

\* C34: the data listener open() attaches for readiness is detached once
\* readiness has been observed: after open() has returned, every data
\* listener on its child's stdout is that of a pending prompt() call.
C34_ReadyListenerDetached ==
  \A p \in Procs :
    opens[p].st = "returned"
      => /\ <<"ready", p>> \notin Range(dataL[p])
         /\ \A l \in Range(dataL[p]) : l[1] = "data" /\ Pending(l[2])

\* C35: with strictly sequential prompts on one open process, the response
\* of a call, while it is gathered and when it is resolved, holds nothing of
\* the answer to an earlier prompt: text of the previous answer that the
\* child wrote after the chunk that ended the previous exchange is not in it.
C35_SequentialIsolation ==
  \A c, d \in CallIds :
    (d < c /\ calls[c].st \in {"pending", "resolved"} /\ calls[d].proc = calls[c].proc)
      => /\ ~Includes(calls[c].buf, Letter(calls[d].line))
         /\ ~Includes(calls[c].result, Letter(calls[d].line))

\* C36: no stream callback of an exchange raises an exception: in every
\* interleaving of close(), open() and the delivery of chunks and stream
\* errors, also while the handle is null, no exception leaves a callback.
C36_NoCallbackThrows ==
  [][ (written' # written \/ \E p \in Procs : StreamError(p)) => ~crashed' ]_vars

\* C37: once an init() call has rejected, no download it started is still
\* writing to disk; so an init() call made after it never skips the download
\* of an artifact whose file the rejected call is still writing.
C37_RejectedInitIsQuiet ==
  [][ \A i \in InitIds :
        InitState(i)' = "rejected"
          => \A a \in Artifacts :
               /\ inits'[i].dl[a] # "writing"
               /\ \A j \in InitIds :
                    (Calls(j) /\ inits[i].dl[a] = "writing") => inits'[j].dl[a] # "none" ]_vars

TypeOK ==
  /\ bot \in 0..MaxOpens
  /\ nprocs \in 0..MaxOpens
  /\ alive \in [Procs -> BOOLEAN]
  /\ written \in 0..MaxChunks
  /\ crashed \in BOOLEAN
  /\ closed \in {"", "ok", "threw"}

====
